---- MODULE Spec2Model ----
(***************************************************************************)
(* eglob: extended glob.  A glob pattern is split on "/" into segments,    *)
(* every segment is translated to a regular expression (glob_to_regex)     *)
(* and compiled (SegmentPattern), and glob1 walks the directory tree with  *)
(* the list of compiled segments.                                          *)
(*                                                                         *)
(* A character is a one-character string and a text (a pattern, a name) is *)
(* a sequence of characters.  A regular expression is a sequence of        *)
(* tokens, one token per piece of text the translation emits.              *)
(***************************************************************************)
EXTENDS Integers, Sequences, FiniteSets, TLC

GLOB_CHARACTERS == {"*", "?", "{", "}", "[", "]", "!", ",", "/", "\\"}

NL == "\n"

Min(S) == CHOOSE x \in S : \A y \in S : x <= y

(***************************************************************************)
(* Tokens of the regular expression text.                                  *)
(***************************************************************************)
\* re.escape(c) for one character of a literal run
Lit(c) == <<"lit", c>>
\* a character copied into the expression as it is
Raw(c) == <<"raw", c>>
\* f"[^{escaped_glob_chars}]+"
NCPLUS == <<"nc+", "">>
\* f"[^{escaped_glob_chars}]{{1}}"
NCONE == <<"nc1", "">>
\* ".*"
DOTSTAR == <<".*", "">>
\* "(?:" and ")" around "|".join(pattern_block)
GOPEN == <<"(?:", "">>
GCLOSE == <<")", "">>
BAR == <<"|", "">>

EscapeRun(run) == [i \in 1..Len(run) |-> Lit(run[i])]
RawRun(run) == [i \in 1..Len(run) |-> Raw(run[i])]

\* sep.join(blocks), every block a token sequence
RECURSIVE Join(_, _)
Join(blocks, sep) ==
    IF blocks = <<>> THEN <<>>
    ELSE IF Len(blocks) = 1 THEN blocks[1]
    ELSE blocks[1] \o sep \o Join(Tail(blocks), sep)

\* pattern_block[-1] = pattern_block[-1] + text, or [text] on IndexError
AppendToLast(blocks, text) ==
    IF blocks = <<>> THEN <<text>>
    ELSE [blocks EXCEPT ![Len(blocks)] = @ \o text]

\* the offset after the longest run of characters outside stop, from offset
RunEnd(pattern, offset, stop) ==
    LET S == {k \in (offset + 1)..Len(pattern) : pattern[k] \in stop}
    IN  IF S = {} THEN Len(pattern) ELSE Min(S) - 1

(***************************************************************************)
(* glob_to_regex.  The nested functions share the offset into the pattern; *)
(* here every one takes the offset and returns the new one with its text.  *)
(***************************************************************************)
RECURSIVE parse_inline_loop(_, _, _)
parse_inline_loop(pattern, offset, block) ==
    IF offset >= Len(pattern) THEN [out |-> block, off |-> offset, err |-> ""]
    ELSE LET c == pattern[offset + 1] IN
        IF c = "*" THEN parse_inline_loop(pattern, offset + 1, block \o <<NCPLUS>>)
        ELSE IF c = "?" THEN parse_inline_loop(pattern, offset + 1, block \o <<NCONE>>)
        ELSE IF c \notin GLOB_CHARACTERS THEN
            LET e == RunEnd(pattern, offset, GLOB_CHARACTERS)
            IN  parse_inline_loop(pattern, e,
                    block \o EscapeRun(SubSeq(pattern, offset + 1, e)))
        ELSE [out |-> block, off |-> offset, err |-> ""]

parse_inline(pattern, offset) == parse_inline_loop(pattern, offset, <<>>)

RECURSIVE parse_range_loop(_, _, _)
parse_range_loop(pattern, offset, block) ==
    IF offset >= Len(pattern) THEN
        \* pattern_block[1] of a one-element list
        IF Len(block) < 2 THEN [out |-> <<>>, off |-> offset, err |-> "IndexError"]
        ELSE LET b == IF block[2] = <<Raw("^")>>
                      THEN [block EXCEPT ![2] = <<Raw("!")>>] ELSE block
             IN  [out |-> Join(b, <<>>), off |-> offset, err |-> ""]
    ELSE LET c == pattern[offset + 1] IN
        IF c = "[" THEN
            IF offset + 1 < Len(pattern) /\ pattern[offset + 2] = "!"
            THEN parse_range_loop(pattern, offset + 2,
                     block \o << <<Raw("[")>>, <<Raw("^")>> >>)
            ELSE parse_range_loop(pattern, offset + 1, Append(block, <<Raw("[")>>))
        ELSE IF c = "]" THEN
            [out |-> Join(Append(block, <<Raw("]")>>), <<>>),
             off |-> offset + 1, err |-> ""]
        ELSE
            LET e == RunEnd(pattern, offset, {"[", "]"})
            IN  parse_range_loop(pattern, e,
                    Append(block, RawRun(SubSeq(pattern, offset + 1, e))))

parse_range(pattern, offset) == parse_range_loop(pattern, offset, <<>>)

RECURSIVE parse_subpattern_loop(_, _, _, _)
parse_subpattern_loop(pattern, offset, block, enter_scope) ==
    IF offset >= Len(pattern) THEN
        [out |-> <<Raw("{")>> \o Join(block, <<Raw(",")>>), off |-> offset, err |-> ""]
    ELSE LET c == pattern[offset + 1] IN
        IF c = "{" THEN
            IF enter_scope THEN
                LET sub == parse_subpattern_loop(pattern, offset + 1, <<>>, FALSE)
                    inl == parse_inline(pattern, sub.off)
                IN  IF sub.err # "" THEN sub
                    ELSE parse_subpattern_loop(pattern, inl.off,
                             AppendToLast(block, sub.out \o inl.out), TRUE)
            ELSE parse_subpattern_loop(pattern, offset + 1, block, TRUE)
        ELSE IF c = "," THEN
            parse_subpattern_loop(pattern, offset + 1, block, enter_scope)
        ELSE IF c = "}" THEN
            [out |-> <<GOPEN>> \o Join(block, <<BAR>>) \o <<GCLOSE>>,
             off |-> offset + 1, err |-> ""]
        ELSE IF c = "[" THEN
            LET rng == parse_range(pattern, offset)
                inl == parse_inline(pattern, rng.off)
            IN  IF rng.err # "" THEN rng
                ELSE parse_subpattern_loop(pattern, inl.off,
                         AppendToLast(block, rng.out \o inl.out), enter_scope)
        ELSE
            LET inl == parse_inline(pattern, offset)
            IN  IF inl.out # <<>>
                THEN parse_subpattern_loop(pattern, inl.off,
                         Append(block, inl.out), enter_scope)
                ELSE [out |-> <<>>, off |-> offset, err |-> "ValueError"]

parse_subpattern(pattern, offset) == parse_subpattern_loop(pattern, offset, <<>>, FALSE)

\* text[offset:] after "**" was consumed, text being pattern[offset - 2:]
SlicedRest(pattern, offset) ==
    LET text == SubSeq(pattern, offset - 1, Len(pattern))
    IN  SubSeq(text, offset + 1, Len(text))

RECURSIVE glob_to_regex_loop(_, _, _)
glob_to_regex_loop(pattern, offset, tmp_pattern) ==
    IF offset >= Len(pattern) THEN [out |-> tmp_pattern, off |-> offset, err |-> ""]
    ELSE LET c == pattern[offset + 1] IN
        IF c = "*" /\ offset + 1 < Len(pattern) /\ pattern[offset + 2] = "*" THEN
            IF SlicedRest(pattern, offset + 2) # <<>>
            THEN [out |-> <<>>, off |-> offset + 2, err |-> "ValueError"]
            ELSE [out |-> tmp_pattern \o <<DOTSTAR>>, off |-> offset + 2, err |-> ""]
        ELSE IF c = "{" THEN
            LET sub == parse_subpattern(pattern, offset)
            IN  IF sub.err # "" THEN sub
                ELSE glob_to_regex_loop(pattern, sub.off, tmp_pattern \o sub.out)
        ELSE IF c = "[" THEN
            LET rng == parse_range(pattern, offset)
            IN  IF rng.err # "" THEN rng
                ELSE glob_to_regex_loop(pattern, rng.off, tmp_pattern \o rng.out)
        ELSE
            LET inl == parse_inline(pattern, offset)
            IN  IF inl.out # <<>>
                THEN glob_to_regex_loop(pattern, inl.off, tmp_pattern \o inl.out)
                ELSE [out |-> <<>>, off |-> offset, err |-> "ValueError"]

glob_to_regex(pattern) == glob_to_regex_loop(pattern, 0, <<>>)

(***************************************************************************)
(* re.compile and Pattern.match of the standard library, on the tokens the *)
(* translation can emit.  A parsed expression is a sequence of             *)
(* alternatives, an alternative a sequence of nodes.                       *)
(***************************************************************************)
\* one or more (q = "+"), any number (q = "*") or one (q = "1") character
\* that is in set (or, with neg, is not)
ClassNode(set, neg, q) ==
    [k |-> "class", set |-> set, neg |-> neg, q |-> q, alts |-> <<>>]
GroupNode(alts) ==
    [k |-> "group", set |-> {}, neg |-> FALSE, q |-> "1", alts |-> alts]
AnchorNode(which) ==
    [k |-> which, set |-> {}, neg |-> FALSE, q |-> "1", alts |-> <<>>]

\* the characters a token contributes when it stands inside a bracket set
TokenChars(t) ==
    IF t[1] \in {"lit", "raw"} THEN {t[2]}
    ELSE IF t = DOTSTAR THEN {".", "*"}
    ELSE IF t = GOPEN THEN {"(", "?", ":"}
    ELSE IF t = GCLOSE THEN {")"}
    ELSE {"|"}

\* the set opened before token k.  A "]" that is the first member is a member;
\* the "[^...]" of a following "*" or "?" translation continues the set, and
\* its own "]" closes it, so that its quantifier applies to the whole set
RECURSIVE sre_class(_, _, _, _, _)
sre_class(re, k, first, set, neg) ==
    IF k > Len(re) THEN [ok |-> FALSE, node |-> AnchorNode("none"), pos |-> k]
    ELSE LET t == re[k] IN
        IF t = Raw("]") /\ ~first
        THEN [ok |-> TRUE, node |-> ClassNode(set, neg, "1"), pos |-> k + 1]
        ELSE IF t \in {NCPLUS, NCONE}
        THEN [ok |-> TRUE,
              node |-> ClassNode(set \cup {"[", "^"} \cup GLOB_CHARACTERS, neg,
                                 IF t = NCPLUS THEN "+" ELSE "1"),
              pos |-> k + 1]
        ELSE sre_class(re, k + 1, FALSE, set \cup TokenChars(t), neg)

RECURSIVE sre_seq(_, _, _), sre_alt(_, _, _)
sre_seq(re, i, acc) ==
    IF i > Len(re) \/ re[i] \in {BAR, GCLOSE} THEN [ok |-> TRUE, ast |-> acc, pos |-> i]
    ELSE LET t == re[i] IN
        IF t = GOPEN THEN
            LET g == sre_alt(re, i + 1, <<>>)
            IN  IF ~g.ok \/ g.pos > Len(re) \/ re[g.pos] # GCLOSE
                THEN [ok |-> FALSE, ast |-> <<>>, pos |-> i]
                ELSE sre_seq(re, g.pos + 1, Append(acc, GroupNode(g.ast)))
        ELSE IF t = Raw("[") THEN
            LET neg == i < Len(re) /\ re[i + 1] = Raw("^")
                c == sre_class(re, IF neg THEN i + 2 ELSE i + 1, TRUE, {}, neg)
            IN  IF ~c.ok THEN [ok |-> FALSE, ast |-> <<>>, pos |-> i]
                ELSE sre_seq(re, c.pos, Append(acc, c.node))
        ELSE sre_seq(re, i + 1, Append(acc,
                 IF t = NCPLUS THEN ClassNode(GLOB_CHARACTERS, TRUE, "+")
                 ELSE IF t = NCONE THEN ClassNode(GLOB_CHARACTERS, TRUE, "1")
                 ELSE IF t = DOTSTAR THEN ClassNode({NL}, TRUE, "*")
                 ELSE IF t = Raw("^") THEN AnchorNode("bol")
                 ELSE IF t = Raw("$") THEN AnchorNode("eol")
                 ELSE ClassNode({t[2]}, FALSE, "1")))

sre_alt(re, i, alts) ==
    LET s == sre_seq(re, i, <<>>)
    IN  IF ~s.ok THEN s
        ELSE IF s.pos <= Len(re) /\ re[s.pos] = BAR
        THEN sre_alt(re, s.pos + 1, Append(alts, s.ast))
        ELSE [ok |-> TRUE, ast |-> Append(alts, s.ast), pos |-> s.pos]

\* re.compile(regex): ok is FALSE where it raises re.error
re_compile(re) ==
    LET r == sre_alt(re, 1, <<>>)
    IN  [ok |-> r.ok /\ r.pos > Len(re), ast |-> r.ast]

\* the positions of name (0 = before its first character) where a match of
\* the node that starts at a position of P can end
RECURSIVE m_alt(_, _, _), m_seq(_, _, _, _), m_node(_, _, _)
m_node(node, name, P) ==
    LET In(j) == (name[j] \in node.set) # node.neg
    IN  IF node.k = "group" THEN m_alt(node.alts, name, P)
        ELSE IF node.k = "bol" THEN P \cap {0}
        ELSE IF node.k = "eol"
        THEN {p \in P : \/ p = Len(name)
                        \/ p = Len(name) - 1 /\ name[Len(name)] = NL}
        ELSE IF node.q = "1" THEN {p + 1 : p \in {x \in P : x < Len(name) /\ In(x + 1)}}
        ELSE {e \in 0..Len(name) :
                \E p \in P : /\ IF node.q = "+" THEN p < e ELSE p <= e
                             /\ \A j \in (p + 1)..e : In(j)}

m_seq(nodes, i, name, P) ==
    IF i > Len(nodes) \/ P = {} THEN P
    ELSE m_seq(nodes, i + 1, name, m_node(nodes[i], name, P))

m_alt(alts, name, P) == UNION {m_seq(alts[i], 1, name, P) : i \in 1..Len(alts)}

\* bool(regex_pattern.match(name))
re_match(ast, name) == m_alt(ast, name, {0}) # {}

(***************************************************************************)
(* SegmentPattern                                                          *)
(***************************************************************************)
\* SegmentPattern._compile_pattern: re.compile(f"^{regex}$")
compile_pattern(pattern) ==
    LET g == glob_to_regex(pattern)
        full == <<Raw("^")>> \o g.out \o <<Raw("$")>>
    IN  IF g.err # "" THEN [ok |-> FALSE, regex |-> <<>>, err |-> g.err]
        ELSE IF ~re_compile(full).ok THEN [ok |-> FALSE, regex |-> <<>>, err |-> "re.error"]
        ELSE [ok |-> TRUE, regex |-> full, err |-> ""]

\* SegmentPattern.match
match(regex, name) == re_match(re_compile(regex).ast, name)

(***************************************************************************)
(* Inputs                                                                  *)
(***************************************************************************)
\* all texts over alphabet A of at most n characters
RECURSIVE Texts(_, _)
Texts(A, n) ==
    IF n = 0 THEN {<<>>}
    ELSE LET T == Texts(A, n - 1) IN T \cup {Append(t, c) : t \in T, c \in A}

MaxSegLen == 4
MaxNameLen == 3

SegAlphabet == {"a", "b", "*", "?", "{", "}", ",", "[", "]", "!"}
NameAlphabet == {"a", "b", ",", NL}

\* prefix{alt1,...,altk}, with or without the closing brace
Brace(prefix, alts, close) ==
    prefix \o <<"{">> \o Join(alts, <<",">>) \o (IF close THEN <<"}">> ELSE <<>>)

BracePrefixes == {<<>>, <<"a">>}
BraceAlts ==
    {<<>>, <<"a">>, <<"b">>, <<"a", "b">>, <<"*">>, <<"?">>,
     <<"[", "a", "b", "]">>, <<"[", "!", "a", "]">>, <<"{", "a", ",", "b", "}">>}
BraceTexts ==
    {Brace(p, <<x>>, cl) : p \in BracePrefixes, x \in BraceAlts, cl \in BOOLEAN}
    \cup {Brace(p, <<x[1], x[2]>>, cl) :
            p \in BracePrefixes, x \in BraceAlts \X BraceAlts, cl \in BOOLEAN}

SegTexts == Texts(SegAlphabet, MaxSegLen) \cup BraceTexts
SegNames == Texts(NameAlphabet, MaxNameLen)

(***************************************************************************)
(* The directory tree: a set of entries, each the path of names from the   *)
(* root and a kind.  Every entry below the root lies in a directory.       *)
(***************************************************************************)
MaxEntries == 3
MaxSegments == 3

TreeNames == {<<"a">>, <<"b">>}
Kinds == {"dir", "file", "other"}

TreePaths(t) == {e.path : e \in t}
TreeDirs(t) == {e.path : e \in {x \in t : x.kind = "dir"}}

\* every tree of at most n entries
RECURSIVE Trees(_)
Trees(n) ==
    IF n = 0 THEN {{}}
    ELSE LET T == Trees(n - 1)
             New(t) == {[path |-> Append(d, nm), kind |-> k] :
                           d \in TreeDirs(t) \cup {<<>>}, nm \in TreeNames, k \in Kinds}
         IN  T \cup UNION {{t \cup {e} : e \in {x \in New(t) : x.path \notin TreePaths(t)}}
                             : t \in T}

\* the glob patterns: up to MaxSegments segments joined by a separator, and
\* patterns that are empty, blank, or have a malformed or an empty segment
CoreSegs == {<<"*", "*">>, <<"*">>, <<"a">>}

RECURSIVE SegSeqs(_)
SegSeqs(n) ==
    IF n = 1 THEN {<<x>> : x \in CoreSegs}
    ELSE LET S == SegSeqs(n - 1)
         IN  S \cup {Append(q, x) : q \in {y \in S : Len(y) = n - 1}, x \in CoreSegs}

SpecialPatterns ==
    {<<>>, <<" ">>, <<" ", " ">>, <<" ", "/", " ">>, <<"!">>, <<"/">>,
     <<"a", "/">>, <<"/", "a">>, <<"*", "/", "!">>, <<"!", "/", "*">>,
     <<"*", "*", "/", "{", "!">>, <<" ", "a">>}

WalkPatterns ==
    {Join(q, <<"/">>) : q \in SegSeqs(MaxSegments)}
    \cup {Join(q, <<"\\">>) : q \in {y \in SegSeqs(MaxSegments) : Len(y) = 2}}
    \cup SpecialPatterns

(***************************************************************************)
(* State                                                                   *)
(***************************************************************************)
VARIABLES
    segText,      \* SegmentPattern.pattern
    segPc,        \* "new", "compiled", "failed" (the constructor raised), "matched"
    segRegex,     \* SegmentPattern.regex_pattern
    segErr,       \* the exception of the constructor
    segName,      \* the argument of the last match
    segResult,    \* what the last match returned
    pattern,      \* iglob's pattern argument
    cwdGiven,     \* iglob's cwd argument is a path (TRUE) or None (FALSE)
    tree,         \* the file system below the working directory
    pc,           \* where iglob is: "start", "compile", "walk", "done", "raised"
    texts,        \* pattern.split("/")
    segments,     \* the list of compiled segments
    stack,        \* the active calls of glob1, the innermost last
    results,      \* the paths yielded so far
    err,          \* the exception iglob raised
    listings,     \* the number of calls of os.listdir
    cwdLookups,   \* the number of calls of os.getcwd
    compiles,     \* the number of SegmentPattern objects constructed or tried
    matchLog      \* <<class of the segment, kind of the entry>> of every match call

svars == <<segText, segPc, segRegex, segErr, segName, segResult>>
wvars == <<pattern, cwdGiven, tree, pc, texts, segments, stack, results, err,
           listings, cwdLookups, compiles, matchLog>>
vars == <<svars, wvars>>

SegIdle ==
    /\ segText = <<>>
    /\ segPc = "idle"
    /\ segRegex = <<>>
    /\ segErr = ""
    /\ segName = <<>>
    /\ segResult = FALSE

WalkIdle ==
    /\ pattern = <<>>
    /\ cwdGiven = TRUE
    /\ tree = {}
    /\ pc = "idle"
    /\ texts = <<>>
    /\ segments = <<>>
    /\ stack = <<>>
    /\ results = {}
    /\ err = ""
    /\ listings = 0
    /\ cwdLookups = 0
    /\ compiles = 0
    /\ matchLog = {}

(***************************************************************************)
(* One SegmentPattern: construct it, then match names against it.          *)
(***************************************************************************)
InitSeg ==
    /\ segText \in SegTexts
    /\ segPc = "new"
    /\ segRegex = <<>>
    /\ segErr = ""
    /\ segName = <<>>
    /\ segResult = FALSE
    /\ WalkIdle

\* SegmentPattern.__init__ returns
SegCompiled ==
    /\ segPc = "new"
    /\ compile_pattern(segText).ok
    /\ segPc' = "compiled"
    /\ segRegex' = compile_pattern(segText).regex
    /\ UNCHANGED <<segText, segErr, segName, segResult, wvars>>

\* SegmentPattern.__init__ raises
SegRaised ==
    /\ segPc = "new"
    /\ ~compile_pattern(segText).ok
    /\ segPc' = "failed"
    /\ segErr' = compile_pattern(segText).err
    /\ UNCHANGED <<segText, segRegex, segName, segResult, wvars>>

\* SegmentPattern.match(name); it reads the object and changes nothing of it,
\* so one call per object shows every call
SegMatch ==
    /\ segPc = "compiled"
    /\ \E name \in SegNames :
        /\ segName' = name
        /\ segResult' = match(segRegex, name)
    /\ segPc' = "matched"
    /\ UNCHANGED <<segText, segRegex, segErr, wvars>>

NextSeg == SegCompiled \/ SegRaised \/ SegMatch

SpecSeg == InitSeg /\ [][NextSeg]_vars

(***************************************************************************)
(* iglob and glob1                                                         *)
(***************************************************************************)
Whitespace == {" ", "\t", NL, "\r"}

\* str.strip()
RECURSIVE strip(_)
strip(t) ==
    IF t = <<>> THEN t
    ELSE IF t[1] \in Whitespace THEN strip(Tail(t))
    ELSE IF t[Len(t)] \in Whitespace THEN strip(SubSeq(t, 1, Len(t) - 1))
    ELSE t

\* not pattern, the test without strip()
pattern_blank_unstripped(t) == t = <<>>

\* not pattern.strip()
pattern_blank(t) == strip(t) = <<>>

\* pattern.replace("\\", "/")
normalize(t) == [i \in 1..Len(t) |-> IF t[i] = "\\" THEN "/" ELSE t[i]]

\* str.split("/")
RECURSIVE split(_)
split(t) ==
    LET e == RunEnd(t, 0, {"/"})
    IN  IF e = Len(t) THEN <<t>>
        ELSE <<SubSeq(t, 1, e)>> \o split(SubSeq(t, e + 2, Len(t)))

\* DirectorySegment(text) for all but the last text, FileSegment(text) for it
SegmentClass(i, n) == IF i < n THEN "DirectorySegment" ELSE "FileSegment"

\* os.listdir, os.path.isdir, os.path.isfile, os.path.join
listdir(t, dir) ==
    {e.path[Len(e.path)] : e \in {x \in t : SubSeq(x.path, 1, Len(x.path) - 1) = dir}}
KindOf(t, path) ==
    IF path \in TreePaths(t) THEN (CHOOSE e \in t : e.path = path).kind ELSE "none"
isdir(t, path) == KindOf(t, path) = "dir"
isfile(t, path) == KindOf(t, path) = "file"
join(root_path, name) == Append(root_path, name)

\* a call of glob1: its arguments and the names of the listing still to visit
Frame(t, root_path, segs) ==
    [root_path |-> root_path, segments |-> segs, todo |-> listdir(t, root_path)]

\* segments, the same list passed on
RecurseSegmentsKeep(segs) == segs

\* segments[1:]
RecurseSegments(segs) == SubSeq(segs, 2, Len(segs))

\* the body of glob1's loop without the os.path.isfile test
glob1_entry_any_kind(segs, name, dir, file) ==
    IF Len(segs) = 0 THEN "IndexError"
    ELSE IF segs[1].cls = "DirectorySegment" THEN
        IF dir THEN (IF match(segs[1].regex, name) THEN "recurse" ELSE "skip")
        ELSE IF segs[1].pattern = <<"*", "*">> THEN
            IF Len(segs) < 2 THEN "IndexError"
            ELSE IF match(segs[2].regex, name) THEN "yield" ELSE "skip"
        ELSE "skip"
    ELSE IF match(segs[1].regex, name) THEN "yield" ELSE "skip"

\* the body of glob1's loop for one name of the listing: what it does with
\* the entry ("recurse", "yield", "skip", or "IndexError" where segments[0]
\* or segments[1] does not exist)
glob1_entry(segs, name, dir, file) ==
    IF Len(segs) = 0 THEN "IndexError"
    ELSE IF segs[1].cls = "DirectorySegment" THEN
        IF dir THEN (IF match(segs[1].regex, name) THEN "recurse" ELSE "skip")
        ELSE IF segs[1].pattern = <<"*", "*">> THEN
            IF Len(segs) < 2 THEN "IndexError"
            ELSE IF match(segs[2].regex, name) THEN "yield" ELSE "skip"
        ELSE "skip"
    ELSE IF file /\ match(segs[1].regex, name) THEN "yield" ELSE "skip"

\* the match calls of that body: the class of the segment asked and the kind
\* of the entry it is asked about
glob1_matches(segs, kind) ==
    IF Len(segs) = 0 THEN {}
    ELSE IF segs[1].cls = "DirectorySegment" THEN
        IF kind = "dir" THEN {<<segs[1].cls, kind>>}
        ELSE IF segs[1].pattern = <<"*", "*">> /\ Len(segs) >= 2
        THEN {<<segs[2].cls, kind>>} ELSE {}
    ELSE IF kind = "file" THEN {<<segs[1].cls, kind>>} ELSE {}

Top == stack[Len(stack)]
Entry(name) == join(Top.root_path, name)
Outcome(name) ==
    glob1_entry(Top.segments, name, isdir(tree, Entry(name)), isfile(tree, Entry(name)))
Visited(name) == [stack EXCEPT ![Len(stack)].todo = @ \ {name}]
Logged(name) == matchLog \cup glob1_matches(Top.segments, KindOf(tree, Entry(name)))

Init ==
    /\ pattern \in WalkPatterns
    /\ cwdGiven \in BOOLEAN
    /\ tree \in Trees(MaxEntries)
    /\ pc = "start"
    /\ texts = <<>>
    /\ segments = <<>>
    /\ stack = <<>>
    /\ results = {}
    /\ err = ""
    /\ listings = 0
    /\ cwdLookups = 0
    /\ compiles = 0
    /\ matchLog = {}
    /\ SegIdle

\* iglob: the pattern is empty or blank
IglobEmpty ==
    /\ pc = "start"
    /\ pattern_blank(pattern)
    /\ pc' = "raised"
    /\ err' = "ValueError"
    /\ UNCHANGED <<pattern, cwdGiven, tree, texts, segments, stack, results,
                   listings, cwdLookups, compiles, matchLog, svars>>

\* iglob: normalize the separators and split the pattern
IglobSplit ==
    /\ pc = "start"
    /\ ~pattern_blank(pattern)
    /\ texts' = split(normalize(pattern))
    /\ pc' = "compile"
    /\ UNCHANGED <<pattern, cwdGiven, tree, segments, stack, results, err,
                   listings, cwdLookups, compiles, matchLog, svars>>

\* iglob: the next segment compiles
IglobSegment ==
    /\ pc = "compile"
    /\ Len(segments) < Len(texts)
    /\ LET i == Len(segments) + 1
           c == compile_pattern(texts[i])
       IN  /\ c.ok
           /\ segments' = Append(segments,
                  [cls |-> SegmentClass(i, Len(texts)), pattern |-> texts[i],
                   regex |-> c.regex])
    /\ compiles' = compiles + 1
    /\ UNCHANGED <<pattern, cwdGiven, tree, pc, texts, stack, results, err,
                   listings, cwdLookups, matchLog, svars>>

\* iglob: the constructor of the next segment raises
IglobSegmentRaises ==
    /\ pc = "compile"
    /\ Len(segments) < Len(texts)
    /\ LET c == compile_pattern(texts[Len(segments) + 1])
       IN  /\ ~c.ok
           /\ err' = c.err
    /\ pc' = "raised"
    /\ compiles' = compiles + 1
    /\ UNCHANGED <<pattern, cwdGiven, tree, texts, segments, stack, results,
                   listings, cwdLookups, matchLog, svars>>

\* iglob: cwd = cwd or os.getcwd(), then the first call of glob1, which
\* lists the directory
IglobWalk ==
    /\ pc = "compile"
    /\ Len(segments) = Len(texts)
    /\ cwdLookups' = IF cwdGiven THEN cwdLookups ELSE cwdLookups + 1
    /\ stack' = <<Frame(tree, <<>>, segments)>>
    /\ listings' = listings + 1
    /\ pc' = "walk"
    /\ UNCHANGED <<pattern, cwdGiven, tree, texts, segments, results, err,
                   compiles, matchLog, svars>>

\* glob1: yield from glob1(absolute_path, segments[1:])
Glob1Recurse ==
    /\ pc = "walk"
    /\ \E name \in Top.todo :
        /\ Outcome(name) = "recurse"
        /\ stack' = Append(Visited(name),
               Frame(tree, Entry(name), RecurseSegments(Top.segments)))
        /\ matchLog' = Logged(name)
    /\ listings' = listings + 1
    /\ UNCHANGED <<pattern, cwdGiven, tree, pc, texts, segments, results, err,
                   cwdLookups, compiles, svars>>

\* glob1: yield absolute_path
Glob1Yield ==
    /\ pc = "walk"
    /\ \E name \in Top.todo :
        /\ Outcome(name) = "yield"
        /\ results' = results \cup {Entry(name)}
        /\ stack' = Visited(name)
        /\ matchLog' = Logged(name)
    /\ UNCHANGED <<pattern, cwdGiven, tree, pc, texts, segments, err,
                   listings, cwdLookups, compiles, svars>>

\* glob1: the entry is passed over, or a segment index is out of range
Glob1Continue ==
    /\ pc = "walk"
    /\ \E name \in Top.todo :
        /\ Outcome(name) \in {"skip", "IndexError"}
        /\ IF Outcome(name) = "IndexError"
           THEN pc' = "raised" /\ err' = "IndexError"
           ELSE UNCHANGED <<pc, err>>
        /\ stack' = Visited(name)
        /\ matchLog' = Logged(name)
    /\ UNCHANGED <<pattern, cwdGiven, tree, texts, segments, results,
                   listings, cwdLookups, compiles, svars>>

\* glob1: the listing is exhausted and the call returns; iglob returns after
\* the first call
Glob1Return ==
    /\ pc = "walk"
    /\ Top.todo = {}
    /\ stack' = SubSeq(stack, 1, Len(stack) - 1)
    /\ pc' = IF Len(stack) = 1 THEN "done" ELSE "walk"
    /\ UNCHANGED <<pattern, cwdGiven, tree, texts, segments, results, err,
                   listings, cwdLookups, compiles, matchLog, svars>>

Next ==
    \/ IglobEmpty
    \/ IglobSplit
    \/ IglobSegment
    \/ IglobSegmentRaises
    \/ IglobWalk
    \/ Glob1Recurse
    \/ Glob1Yield
    \/ Glob1Continue
    \/ Glob1Return

Spec == Init /\ [][Next]_vars

(***************************************************************************)
(* Claims about one segment, checked under SpecSeg.                        *)
(***************************************************************************)
HasDoubleStar(t) == \E i \in 1..(Len(t) - 1) : t[i] = "*" /\ t[i + 1] = "*"

\* no bracket range in the text: every "*", "{" and "}" of it is an operator,
\* none a member of a range
NoBrackets(t) == \A i \in 1..Len(t) : t[i] \notin {"[", "]"}

\* the number of "{" of t[i..] left open at the end of the text, d being open
RECURSIVE OpenBraces(_, _, _)
OpenBraces(t, i, d) ==
    IF i > Len(t) THEN d
    ELSE IF t[i] = "{" THEN OpenBraces(t, i + 1, d + 1)
    ELSE IF t[i] = "}" /\ d > 0 THEN OpenBraces(t, i + 1, d - 1)
    ELSE OpenBraces(t, i + 1, d)

\* name[j..] splits into one piece per token of t[i..]: a literal character
\* is itself, "*" is one or more characters none of them a glob character,
\* "?" is one such character
RECURSIVE Pieces(_, _, _, _)
Pieces(t, i, name, j) ==
    IF i > Len(t) THEN j > Len(name)
    ELSE IF t[i] = "*" THEN
        \E e \in j..Len(name) :
            /\ \A k \in j..e : name[k] \notin GLOB_CHARACTERS
            /\ Pieces(t, i + 1, name, e + 1)
    ELSE IF t[i] = "?" THEN
        j <= Len(name) /\ name[j] \notin GLOB_CHARACTERS /\ Pieces(t, i + 1, name, j + 1)
    ELSE j <= Len(name) /\ name[j] = t[i] /\ Pieces(t, i + 1, name, j + 1)

\* the text, compiled on its own, matches the name
MatchesAlone(t, name) ==
    LET c == compile_pattern(t) IN c.ok /\ match(c.regex, name)

LiteralRuns == Texts({"a", "b"}, 2)

\* C3: a segment text that has "**" and any other character fails to compile
\* (stated for the texts of literal characters, "*" and "?").
C3_DoubleStarOnlyAlone ==
    (/\ segPc # "new"
     /\ \A i \in 1..Len(segText) : segText[i] \notin GLOB_CHARACTERS \ {"*", "?"}
     /\ HasDoubleStar(segText) /\ Len(segText) > 2)
        => segPc = "failed"

\* C4: a brace group matches a name iff one of its alternatives, compiled on
\* its own (after the prefix of the group, if there is one), matches the name.
C4_BraceGroupIsUnion ==
    segPc = "matched" =>
        \A p \in BracePrefixes, x \in (BraceAlts \ {<<>>}) \X (BraceAlts \ {<<>>}) :
            segText = Brace(p, <<x[1], x[2]>>, TRUE) =>
                (segResult <=> \E i \in 1..2 : MatchesAlone(p \o x[i], segName))

\* C5: x{,b} matches x and xb: the empty alternative is kept.
C5_EmptyAlternativeKept ==
    segPc = "matched" =>
        \A x \in LiteralRuns, b \in LiteralRuns \ {<<>>} :
            (segText = Brace(x, << <<>>, b >>, TRUE) /\ segName \in {x, x \o b})
                => segResult

\* C6: a segment text with a "{" that no "}" closes fails to compile.
C6_UnterminatedBraceFails ==
    (segPc # "new" /\ NoBrackets(segText) /\ OpenBraces(segText, 1, 0) > 0)
        => segPc = "failed"

\* C7: a segment text of literal characters, "*" and "?" (one that begins
\* with "**" is the any-depth segment or no segment at all) matches exactly
\* the names that split into one piece per token.
C7_WholeNameMatches ==
    (/\ segPc = "matched"
     /\ segText # <<>>
     /\ \A i \in 1..Len(segText) : segText[i] \notin GLOB_CHARACTERS \ {"*", "?"}
     /\ ~(Len(segText) >= 2 /\ segText[1] = "*" /\ segText[2] = "*"))
        => (segResult <=> Pieces(segText, 1, segName, 1))

(***************************************************************************)
(* Claims about the walk, checked under Spec.                              *)
(***************************************************************************)
DoubleStar == <<"*", "*">>
LastName(path) == path[Len(path)]

\* what the claims say of the pattern, read off its characters
Blank(t) == \A i \in 1..Len(t) : t[i] \in Whitespace
SegmentCount(t) == 1 + Cardinality({i \in 1..Len(t) : t[i] \in {"/", "\\"}})
Malformed(t) ==
    \E i \in 1..Len(split(normalize(t))) : ~compile_pattern(split(normalize(t))[i]).ok

\* C1: with the pattern **/<f>, every file at any depth whose name matches
\* <f> is returned.
C1_DoubleStarAnyDepth ==
    (pc = "done" /\ Len(texts) = 2 /\ texts[1] = DoubleStar) =>
        \A e \in tree :
            (e.kind = "file" /\ MatchesAlone(texts[2], LastName(e.path)))
                => e.path \in results

\* C2: with no "**" segment among the n segments, the walk returns exactly
\* the files n - 1 directories below the root whose path matches the
\* segments name by name.
C2_ExactSetWithoutDoubleStar ==
    (pc = "done" /\ \A i \in 1..Len(texts) : texts[i] # DoubleStar) =>
        results = {e.path : e \in {x \in tree :
                      /\ x.kind = "file"
                      /\ Len(x.path) = Len(texts)
                      /\ \A i \in 1..Len(texts) : MatchesAlone(texts[i], x.path[i])}}

\* a walk of two segments or more without "**" has ended; it returned a file
\* and passed over another file at the same depth
C2_Witness ==
    /\ pc = "done"
    /\ Len(texts) >= 2
    /\ \A i \in 1..Len(texts) : texts[i] # DoubleStar
    /\ results # {}
    /\ \E e \in tree : e.kind = "file" /\ Len(e.path) = Len(texts) /\ e.path \notin results

\* C8: the file segment is asked only about entries that are no directory
\* and a directory segment only about directories; every path yielded is an
\* entry that is no directory and whose name matches the last segment.
C8_SegmentsMatchTheirKind ==
    /\ \A m \in matchLog :
        /\ m[1] = "FileSegment" => m[2] # "dir"
        /\ m[1] = "DirectorySegment" => m[2] = "dir"
    /\ \A path \in results :
        /\ KindOf(tree, path) # "dir"
        /\ MatchesAlone(texts[Len(texts)], LastName(path))

\* C9: no directory is listed, the working directory is not looked up and
\* no path is yielded before the pattern passed the blank check and every
\* segment compiled; a blank pattern fails before any segment is compiled;
\* a pattern with a malformed segment lists no directory.  (The first
\* listing is the one of the first call of glob1, and the working directory
\* is looked up and paths are yielded only with it or after it.)
C9_ValidationBeforeIO ==
    /\ (listings > 0 \/ cwdLookups > 0 \/ results # {}) =>
        /\ ~Blank(pattern)
        /\ compiles = SegmentCount(pattern)
        /\ Len(segments) = compiles
        /\ listings > 0
    /\ (listings = 1 /\ Len(stack) = 1) => ~Malformed(pattern)
    /\ Blank(pattern) => (compiles = 0 /\ listings = 0 /\ cwdLookups = 0)

\* a pattern of two segments or more was validated, the working directory
\* was looked up, directories were listed and a path was yielded
C9_Witness ==
    /\ Len(segments) >= 2
    /\ cwdLookups = 1
    /\ listings >= 2
    /\ results # {}

\* C10: every call of glob1 has a non-empty segment list, the FileSegment
\* last and DirectorySegments before it; no index is out of range; call k
\* of the nest has dropped k - 1 segments, and the nest is never deeper than
\* the number of segments.
C10_SegmentListShape ==
    /\ err # "IndexError"
    /\ Len(stack) <= Len(texts)
    /\ \A k \in 1..Len(stack) :
        LET sg == stack[k].segments
        IN  /\ sg # <<>>
            /\ sg = SubSeq(segments, k, Len(segments))
            /\ sg[Len(sg)].cls = "FileSegment"
            /\ \A i \in 1..(Len(sg) - 1) : sg[i].cls = "DirectorySegment"

\* the innermost call has the file segment alone, in a directory that has a
\* directory with an entry below it: the tree is deeper than the pattern
C10_Witness ==
    /\ pc = "walk"
    /\ Len(segments) = 2
    /\ Len(stack) = 2
    /\ \E e \in tree :
        /\ Len(e.path) = 3
        /\ SubSeq(e.path, 1, 1) = Top.root_path

====
